---- MODULE Spec2Model ----
(***************************************************************************)
(* dbloada: source resolution and table materialization pipeline.          *)
(*                                                                         *)
(* Text is a sequence of one-character strings.  Five specifications:      *)
(*   SpecStrip  - strip_csv_field applied to bounded field values          *)
(*   SpecParse  - CsvParserImpl::parse applied to bounded texts and specs  *)
(*   Spec       - LoadImpl::load, table_reader::read and the readers       *)
(*   SpecStore  - YamlProjectIO::save and load over a file system          *)
(*   SpecInit   - InitImpl::init on a target directory                     *)
(***************************************************************************)
EXTENDS Integers, Sequences, FiniteSets, TLC

VARIABLES
    field, stripped, restripped,        \* strip_csv_field: input, one and two applications
    content, table, parsed,             \* CsvParserImpl::parse: inputs and result
    readers,                            \* LoadImpl.table_readers: ordered reader list
    disk,                               \* project directory: kind of path, project file, stored project
    files,                              \* data files of the project directory: filename -> text
    temps,                              \* temp files left on disk
    uuid,                               \* number of temp paths generated so far
    pc,                                 \* position of load: idle, read_tables, read_table, done
    project,                            \* the Project obtained from the Project Store
    k,                                  \* position in project.spec.tables of the table being read
    cur,                                \* position in readers of the reader performing the read
    tables,                             \* tables pushed so far by read_tables
    calls,                              \* read_table invocations: table and reader position, result, command outcome, arguments given, temp path, operations performed, entries logged
    returned,                           \* values returned by table_reader::read, in order
    result,                             \* value returned by load
    io_loads,                           \* number of calls of project_io.load
    log,                                \* entries written to the Logger by load and the readers
    store,                              \* file system under the Project Store: path -> content, if any
    saved,                              \* per path, the project of the latest save that returned Ok, if any
    io,                                 \* the latest Project Store call: operation, path, project given, result
    target,                             \* init: the path given (kind, entries found there, directory name, failing call)
    request,                            \* init: the name and force arguments
    init_pc,                            \* init: position (off, start, directories, files, project, done)
    init_i,                             \* init: position in example_directories / example_data_files
    effects,                            \* init: file system and Project Store calls that succeeded, in order
    init_result                         \* init: value returned

stripVars == <<field, stripped, restripped>>
parseVars == <<content, table, parsed>>
loadVars == <<readers, disk, files, temps, uuid, pc, project, k, cur, tables, calls, returned, result,
             io_loads, log>>
storeVars == <<store, saved, io>>
initVars == <<target, request, init_pc, init_i, effects, init_result>>
vars == <<field, stripped, restripped, content, table, parsed,
          readers, disk, files, temps, uuid, pc, project, k, cur, tables, calls, returned, result,
          io_loads, log, store, saved, io, target, request, init_pc, init_i, effects, init_result>>

----------------------------------------------------------------------------
(* Bounds *)

MaxStrLen == 4
MaxCells == 4
MaxCols == 2
MaxTables == 2
MaxReaders == 2

----------------------------------------------------------------------------
(* Option / Result values *)

None == [some |-> FALSE]
Some(x) == [some |-> TRUE, val |-> x]
Ok(x) == [ok |-> TRUE, val |-> x]
Err(e) == [ok |-> FALSE, err |-> e]
NotRun == [state |-> "none"]

SeqsUpTo(S, n) == UNION {[1..m -> S] : m \in 0..n}

Max(S) == CHOOSE x \in S : \A y \in S : y <= x

----------------------------------------------------------------------------
(* Characters *)

Quote == "\""
Delim == ","
Newline == "\n"
Space == " "

IsSpace(c) == c \in {" ", "\t", "\n", "\r"}
IsTerm(c) == c \in {"\n", "\r"}

RECURSIVE TrimStart(_)
TrimStart(s) ==
    IF s # <<>> /\ IsSpace(Head(s)) THEN TrimStart(Tail(s)) ELSE s

RECURSIVE TrimEnd(_)
TrimEnd(s) ==
    IF s # <<>> /\ IsSpace(s[Len(s)]) THEN TrimEnd(SubSeq(s, 1, Len(s) - 1)) ELSE s

Trim(s) == TrimEnd(TrimStart(s))

\* str::strip_prefix('"'): None when the string does not start with a quote
StripPrefixQuote(s) ==
    IF s # <<>> /\ Head(s) = Quote THEN Some(Tail(s)) ELSE None

\* str::strip_suffix('"')
StripSuffixQuote(s) ==
    IF s # <<>> /\ s[Len(s)] = Quote THEN Some(SubSeq(s, 1, Len(s) - 1)) ELSE None

\* Variant: the leading quote is dropped even when no closing quote matches
strip_csv_field_PrefixOnly(f) ==
    LET trimmed == Trim(f)
        p == StripPrefixQuote(trimmed)
        q == IF p.some THEN StripSuffixQuote(p.val) ELSE None
    IN IF q.some THEN q.val ELSE IF p.some THEN p.val ELSE trimmed

strip_csv_field(f) ==
    LET trimmed == Trim(f)
        p == StripPrefixQuote(trimmed)
        q == IF p.some THEN StripSuffixQuote(p.val) ELSE None
    IN IF q.some THEN q.val ELSE trimmed

----------------------------------------------------------------------------
(* csv::Reader as configured by parse: has_headers(table.has_header),       *)
(* trim(Trim::All), every other option at its default (delimiter ',',       *)
(* quote '"', double_quote, terminator CRLF, flexible = false).             *)

\* csv-core record scanner; st is the scanner state, fld the field being
\* built, rec the record being built, recs the finished records.
RECURSIVE CsvScan(_, _, _, _, _, _)
CsvScan(text, i, st, fld, rec, recs) ==
    IF i > Len(text)
    THEN IF st = "StartRecord" THEN recs ELSE Append(recs, Append(rec, fld))
    ELSE LET c == text[i] IN
         CASE st = "StartRecord" ->
                IF IsTerm(c)
                THEN CsvScan(text, i + 1, "StartRecord", <<>>, <<>>, recs)
                ELSE CsvScan(text, i, "StartField", <<>>, <<>>, recs)
           [] st = "StartField" ->
                IF c = Quote THEN CsvScan(text, i + 1, "InQuotedField", fld, rec, recs)
                ELSE IF c = Delim THEN CsvScan(text, i + 1, "StartField", <<>>, Append(rec, fld), recs)
                ELSE IF IsTerm(c) THEN CsvScan(text, i + 1, "StartRecord", <<>>, <<>>, Append(recs, Append(rec, fld)))
                ELSE CsvScan(text, i + 1, "InField", Append(fld, c), rec, recs)
           [] st = "InField" ->
                IF c = Delim THEN CsvScan(text, i + 1, "StartField", <<>>, Append(rec, fld), recs)
                ELSE IF IsTerm(c) THEN CsvScan(text, i + 1, "StartRecord", <<>>, <<>>, Append(recs, Append(rec, fld)))
                ELSE CsvScan(text, i + 1, "InField", Append(fld, c), rec, recs)
           [] st = "InQuotedField" ->
                IF c = Quote THEN CsvScan(text, i + 1, "InDoubleEscapedQuote", fld, rec, recs)
                ELSE CsvScan(text, i + 1, "InQuotedField", Append(fld, c), rec, recs)
           [] st = "InDoubleEscapedQuote" ->
                IF c = Quote THEN CsvScan(text, i + 1, "InQuotedField", Append(fld, c), rec, recs)
                ELSE IF c = Delim THEN CsvScan(text, i + 1, "StartField", <<>>, Append(rec, fld), recs)
                ELSE IF IsTerm(c) THEN CsvScan(text, i + 1, "StartRecord", <<>>, <<>>, Append(recs, Append(rec, fld)))
                ELSE CsvScan(text, i + 1, "InField", Append(fld, c), rec, recs)

\* All physical records of the text, each field trimmed (Trim::All)
CsvRecords(text) ==
    LET raw == CsvScan(text, 1, "StartRecord", <<>>, <<>>, <<>>)
    IN [r \in DOMAIN raw |-> [f \in DOMAIN raw[r] |-> Trim(raw[r][f])]]

\* reader.headers(): the first record, empty when the text has none
CsvHeaders(recs) == IF recs = <<>> THEN <<>> ELSE recs[1]

\* Variant: the header record is iterated over as well
CsvDataRecords_KeepHeader(recs, has_header) == recs

\* The records reader.records() iterates over
CsvDataRecords(recs, has_header) ==
    IF has_header /\ recs # <<>> THEN Tail(recs) ELSE recs

\* flexible = false: the first record read fixes the field count; position
\* (in recs) of the first record whose width differs, 0 when there is none
FirstUnequal(recs) ==
    LET bad == {r \in DOMAIN recs : Len(recs[r]) # Len(recs[1])}
    IN IF bad = {} THEN 0 ELSE CHOOSE r \in bad : \A q \in bad : r <= q

----------------------------------------------------------------------------
(* Column resolution and row extraction *)

ParseError(table_name, message) ==
    [kind |-> "ParseError", table_name |-> table_name, message |-> message]

\* Variant: the first of several equal header names keeps its position
HeaderMap_FirstWins(headers) ==
    [n \in {strip_csv_field(headers[i]) : i \in DOMAIN headers} |->
        (CHOOSE i \in DOMAIN headers :
            /\ strip_csv_field(headers[i]) = n
            /\ \A j \in DOMAIN headers : strip_csv_field(headers[j]) = n => i <= j) - 1]

\* Variant: header positions counted from one
HeaderMap_OneBased(headers) ==
    [n \in {strip_csv_field(headers[i]) : i \in DOMAIN headers} |->
        Max({i \in DOMAIN headers : strip_csv_field(headers[i]) = n})]

\* headers.iter().enumerate().map(|(i, h)| (strip_csv_field(h), i)).collect():
\* a later duplicate key overwrites an earlier one
HeaderMap(headers) ==
    [n \in {strip_csv_field(headers[i]) : i \in DOMAIN headers} |->
        Max({i \in DOMAIN headers : strip_csv_field(headers[i]) = n}) - 1]

\* Variant: a missing header map is treated as an empty one
ResolveOne_EmptyMapWhenNoHeader(tbl, col, header_map) ==
    IF col.column_identifier.kind = "Index"
    THEN Ok(col.column_identifier.index)
    ELSE IF ~header_map.some \/ col.column_identifier.name \notin DOMAIN header_map.val
         THEN Err(ParseError(tbl.name, <<"header_not_found", col.name, col.column_identifier.name>>))
         ELSE Ok(header_map.val[col.column_identifier.name])

\* Variant: a name missing from the header map defaults to position 0
ResolveOne_DefaultMissing(tbl, col, header_map) ==
    IF col.column_identifier.kind = "Index"
    THEN Ok(col.column_identifier.index)
    ELSE IF ~header_map.some
         THEN Err(ParseError(tbl.name, <<"name_without_header", col.name, col.column_identifier.name>>))
         ELSE IF col.column_identifier.name \notin DOMAIN header_map.val
              THEN Ok(0)
              ELSE Ok(header_map.val[col.column_identifier.name])

\* Outcome of resolving one declared column
ResolveOne(tbl, col, header_map) ==
    IF col.column_identifier.kind = "Index"
    THEN Ok(col.column_identifier.index)
    ELSE IF ~header_map.some
         THEN Err(ParseError(tbl.name, <<"name_without_header", col.name, col.column_identifier.name>>))
         ELSE IF col.column_identifier.name \notin DOMAIN header_map.val
              THEN Err(ParseError(tbl.name, <<"header_not_found", col.name, col.column_identifier.name>>))
              ELSE Ok(header_map.val[col.column_identifier.name])

resolve_column_indices(tbl, header_map) ==
    LET one(j) == ResolveOne(tbl, tbl.columns[j], header_map)
        failing == {j \in DOMAIN tbl.columns : ~one(j).ok}
    IN IF failing = {}
       THEN Ok([j \in DOMAIN tbl.columns |-> one(j).val])
       ELSE one(CHOOSE j \in failing : \A q \in failing : j <= q)

\* Variant: positions beyond the record are skipped instead of padded
extract_row_SkipMissing(record, indices) ==
    LET present == SelectSeq(indices, LAMBDA i : i + 1 <= Len(record))
    IN [j \in DOMAIN present |-> strip_csv_field(record[present[j] + 1])]

extract_row(record, indices) ==
    [j \in DOMAIN indices |->
        strip_csv_field(IF indices[j] + 1 <= Len(record) THEN record[indices[j] + 1] ELSE <<>>)]

NewTable(name, columns, rows) == [name |-> name, columns |-> columns, rows |-> rows]

\* Variant: with a header, the table's columns are named after the header
\* fields the declared columns resolve to
parse_HeaderColumns(text, tbl) ==
    LET recs == CsvRecords(text)
        header_map == IF tbl.has_header THEN Some(HeaderMap(CsvHeaders(recs))) ELSE None
        indices == resolve_column_indices(tbl, header_map)
        data == CsvDataRecords(recs, tbl.has_header)
        bad == FirstUnequal(recs)
        column_names == IF tbl.has_header
                        THEN extract_row(CsvHeaders(recs), indices.val)
                        ELSE [j \in DOMAIN tbl.columns |-> tbl.columns[j].name]
    IN IF ~indices.ok THEN indices
       ELSE IF bad # 0 THEN Err(ParseError(tbl.name, <<"record", bad>>))
       ELSE Ok(NewTable(tbl.name, column_names,
                        [r \in DOMAIN data |-> extract_row(data[r], indices.val)]))

\* CsvParserImpl::parse
parse(text, tbl) ==
    LET recs == CsvRecords(text)
        header_map == IF tbl.has_header THEN Some(HeaderMap(CsvHeaders(recs))) ELSE None
        indices == resolve_column_indices(tbl, header_map)
        data == CsvDataRecords(recs, tbl.has_header)
        bad == FirstUnequal(recs)
        column_names == [j \in DOMAIN tbl.columns |-> tbl.columns[j].name]
    IN IF ~indices.ok THEN indices
       ELSE IF bad # 0 THEN Err(ParseError(tbl.name, <<"record", bad>>))
       ELSE Ok(NewTable(tbl.name, column_names,
                        [r \in DOMAIN data |-> extract_row(data[r], indices.val)]))

----------------------------------------------------------------------------
(* Inputs *)

StripAlphabet == {"a", Space, Quote}
FieldValues == SeqsUpTo(StripAlphabet, MaxStrLen)

\* A plain field, a quoted field, and a field whose quotes the reader keeps
\* because a space precedes them
RawFields ==
    { <<"a">>,
      <<Quote, "b", Quote>>,
      <<Space, Quote, "a", Quote>> }

RECURSIVE JoinLine(_)
JoinLine(fs) ==
    IF Len(fs) = 1 THEN fs[1] \o <<Newline>>
    ELSE fs[1] \o <<Delim>> \o JoinLine(Tail(fs))

\* Texts of newline-terminated lines holding at most n raw fields in all
RECURSIVE TextsUpTo(_)
TextsUpTo(n) ==
    {<<>>} \cup UNION {{JoinLine(l) \o t : l \in [1..j -> RawFields], t \in TextsUpTo(n - j)} :
                        j \in 1..n}

Texts == TextsUpTo(MaxCells)

Index(i) == [kind |-> "Index", index |-> i]
Name(n) == [kind |-> "Name", name |-> n]

ColumnIds == {Index(1), Name(<<"a">>), Name(<<"b">>)}

ColName(j) == <<"c", j>>

ColumnsOf(ids) ==
    [j \in DOMAIN ids |-> [name |-> ColName(j), column_identifier |-> ids[j]]]

ParseSpecs ==
    {[name |-> "t", has_header |-> h, columns |-> ColumnsOf(ids)] :
        h \in BOOLEAN, ids \in SeqsUpTo(ColumnIds, MaxCols)}

----------------------------------------------------------------------------
(* Project model and readers *)

RECURSIVE ToLower(_)
ToLower(s) ==
    IF s = <<>> THEN <<>>
    ELSE LET c == Head(s)
             l == CASE c = "C" -> "c" [] c = "S" -> "s" [] c = "V" -> "v"
                    [] c = "B" -> "b" [] OTHER -> c
         IN <<l>> \o ToLower(Tail(s))

EndsWith(s, suffix) ==
    /\ Len(s) >= Len(suffix)
    /\ SubSeq(s, Len(s) - Len(suffix) + 1, Len(s)) = suffix

DotCsv == <<".", "c", "s", "v">>

FileSource(filename, enc) ==
    [kind |-> "File", filename |-> filename, character_encoding |-> enc]
CmdSource(command, args, stdout, enc) ==
    [kind |-> "Cmd", command |-> command, args |-> args, stdout |-> stdout,
     character_encoding |-> enc]

TableSpec(name, has_header, source, ids) ==
    [name |-> name, has_header |-> has_header, source |-> source, columns |-> ColumnsOf(ids)]

ReadError(table_name, message) ==
    [kind |-> "ReadError", table_name |-> table_name, message |-> message]
NoReaderFound(table_name) == [kind |-> "NoReaderFound", table_name |-> table_name]
FileSystemError(path) == [kind |-> "FileSystemError", path |-> path]

\* Variant: the file name is compared as written
CsvCanRead_CaseSensitive(t) ==
    t.source.kind = "File" /\ EndsWith(t.source.filename, DotCsv)

\* CsvTableReader::can_read
CsvCanRead(t) ==
    t.source.kind = "File" /\ EndsWith(ToLower(t.source.filename), DotCsv)

\* CmdCsvTableReader::can_read
CmdCanRead(t) == t.source.kind = "Cmd"

can_read(reader, t) == IF reader = "csv" THEN CsvCanRead(t) ELSE CmdCanRead(t)

\* A Logger call: level, the fixed part of the message, the table it is about
LogEntry(level, msg, table_name) == [level |-> level, msg |-> msg, table |-> table_name]

\* CsvTableReader::read_table up to file_system.load: the entries logged
CsvOpening(t) ==
    << LogEntry("debug", "reading CSV file", t.name),
       LogEntry("debug", "has_header", t.name),
       LogEntry("debug", "reading file", t.name) >>

\* CsvTableReader::read_table after file_system.load returned the text: r is
\* what the reader's own copy of the header / resolve / extract steps makes of
\* it, every failure of those reported as a ReadError
CsvParsed(t, r) ==
    LET resolving == CsvOpening(t) \o << LogEntry("info", "read file", t.name) >>
                     \o (IF t.has_header THEN << LogEntry("debug", "CSV headers", t.name) >> ELSE <<>>)
        mapping == << LogEntry("debug", "column mapping", t.name) >>
    IN IF r.ok
       THEN [res |-> r, log |-> resolving \o mapping \o << LogEntry("info", "read table", t.name) >>]
       ELSE [res |-> Err(ReadError(t.name, r.err.message)),
             log |-> IF r.err.message[1] = "record" THEN resolving \o mapping ELSE resolving]

\* CsvTableReader::read_table.  The declared character_encoding is not looked
\* at.  Returns the result and the entries the reader (and the file system
\* under it) logged.
CsvReadTable(t, fs) ==
    IF t.source.filename \notin DOMAIN fs
    THEN [res |-> Err(FileSystemError(t.source.filename)), log |-> CsvOpening(t)]
    ELSE CsvParsed(t, parse(fs[t.source.filename], t))

KnownEncodings == {"utf-8", "latin1"}

\* decode_bytes: unknown label or malformed byte sequence is an error
decode_bytes(bytes, encoding_label) ==
    IF encoding_label \notin KnownEncodings
    THEN Err(<<"unsupported encoding", encoding_label>>)
    ELSE IF bytes.malformed
         THEN Err(<<"encoding errors", encoding_label>>)
         ELSE Ok(bytes.text)

TempToken == <<"$", "T", "E", "M", "P", "_", "C", "S", "V", "_", "P", "A", "T", "H">>

\* Variant: a fixed file name, no uuid in it
TempPath_Fixed(n) == <<"/", "t", "m", "p", "/", "d", "b", "l", "o", "a", "d", "a", ".", "c", "s", "v">>

\* temp_dir.join("dbloada-<uuid>.csv"), the n-th fresh uuid
TempPath(n) == <<"/", "t", "m", "p", "/", "d", "b", "l", "o", "a", "d", "a", "-", ToString(n), ".", "c", "s", "v">>

\* str::replace: every non-overlapping match of from, left to right
RECURSIVE Replace(_, _, _)
Replace(s, from, to) ==
    IF Len(s) < Len(from) THEN s
    ELSE IF SubSeq(s, 1, Len(from)) = from
         THEN to \o Replace(SubSeq(s, Len(from) + 1, Len(s)), from, to)
         ELSE <<Head(s)>> \o Replace(Tail(s), from, to)

\* Variant: only the first occurrence in each argument is replaced
substitute_temp_path_FirstOnly(args, path) ==
    LET n == Len(TempToken)
        hits(s) == {i \in 1..Len(s) : i + n - 1 <= Len(s) /\ SubSeq(s, i, i + n - 1) = TempToken}
        first(s) == CHOOSE i \in hits(s) : \A j \in hits(s) : i <= j
    IN [a \in DOMAIN args |->
           IF hits(args[a]) = {} THEN args[a]
           ELSE SubSeq(args[a], 1, first(args[a]) - 1) \o path
                \o SubSeq(args[a], first(args[a]) + n, Len(args[a]))]

\* substitute_temp_path
substitute_temp_path(args, path) ==
    [a \in DOMAIN args |-> Replace(args[a], TempToken, path)]

\* Variant: the captured stderr is left out of the message
StdoutExitError_NoStderr(t, out) ==
    Err(ReadError(t.name, <<"exited with status", t.source.command, <<>>>>))

\* Captured-stdout mode, !output.status.success()
StdoutExitError(t, out) ==
    Err(ReadError(t.name, <<"exited with status", t.source.command, Trim(out.stderr)>>))

\* Temp-file mode, !status.success()
TempExitError(t) ==
    Err(ReadError(t.name, <<"exited with status", t.source.command>>))

\* Variant: the temp file is never removed
remove_file_Never(tmp, path, deleted) == tmp

\* let _ = tokio::fs::remove_file(&temp_path): the file is gone when the
\* removal succeeds; its outcome is discarded either way
remove_file(tmp, path, deleted) == IF deleted THEN tmp \ {path} ELSE tmp

\* decode_bytes, then csv_parser.parse on the decoded text
Decoded(t, bytes) ==
    LET d == decode_bytes(bytes, t.source.character_encoding)
    IN IF d.ok THEN parse(d.val, t) ELSE Err(ReadError(t.name, d.err))

\* The operations read_table performs from decode_bytes on, in order: parse
\* is reached only with decoded text
DecodeSteps(t, bytes) ==
    IF decode_bytes(bytes, t.source.character_encoding).ok
    THEN <<"decode", "parse">> ELSE <<"decode">>

\* What read_table hands back once the command ran: the result, the temp files
\* left, the arguments the command was given, the temp path generated (none in
\* captured-stdout mode), the operations performed in order, the entries logged
CmdReturn(t, res, tmp, args, path, steps) ==
    [res |-> res, temps |-> tmp, args |-> args, path |-> path, steps |-> steps,
     log |-> IF res.ok
             THEN << LogEntry("info", "running command", t.name),
                     LogEntry("info", "read table", t.name) >>
             ELSE << LogEntry("info", "running command", t.name) >>]

\* Variant: the captured stdout is decoded and parsed before the status is
\* looked at
StdoutChecked_DecodeFirst(t, out, r, dsteps, tmp) ==
    IF ~r.ok THEN CmdReturn(t, r, tmp, t.source.args, <<>>, <<"spawn">> \o dsteps)
    ELSE IF ~out.success
    THEN CmdReturn(t, StdoutExitError(t, out), tmp, t.source.args, <<>>, <<"spawn">> \o dsteps)
    ELSE CmdReturn(t, r, tmp, t.source.args, <<>>, <<"spawn">> \o dsteps)

\* Captured-stdout mode once the command has run: the status check, then
\* decode_bytes and parse (r, with the operations dsteps) on the captured stdout
StdoutChecked(t, out, r, dsteps, tmp) ==
    IF ~out.success
    THEN CmdReturn(t, StdoutExitError(t, out), tmp, t.source.args, <<>>, <<"spawn">>)
    ELSE CmdReturn(t, r, tmp, t.source.args, <<>>, <<"spawn">> \o dsteps)

\* Variant: the temp file is removed only after a successful parse
AfterRead_RemoveOnSuccess(t, r, dsteps, written, path, deleted, args) ==
    IF r.ok
    THEN CmdReturn(t, r, remove_file(written, path, deleted), args, path,
                   <<"spawn", "read">> \o dsteps \o <<"remove">>)
    ELSE CmdReturn(t, r, written, args, path, <<"spawn", "read">> \o dsteps)

\* Temp-file mode once the bytes of the temp file are read: remove_file, then
\* decode_bytes and parse (r, with the operations dsteps)
AfterRead(t, r, dsteps, written, path, deleted, args) ==
    CmdReturn(t, r, remove_file(written, path, deleted), args, path,
              <<"spawn", "read", "remove">> \o dsteps)

\* What running the command does: out.spawned (the process started),
\* out.success (exit status 0), out.stdout / out.stderr (captured streams),
\* out.wrote (bytes written to the temp path, if any), out.deleted (whether
\* remove_file succeeds).  Returns the read result, the temp files left, the
\* arguments the command was given, the temp path, the operations performed
\* and the entries the reader logged.
CmdReadTable(t, out, tmp, n) ==
    LET cs == t.source
        exec_failed == Err(ReadError(t.name, <<"failed to execute", cs.command>>))
        path == TempPath(n)
        args == substitute_temp_path(cs.args, path)
        written == IF out.wrote.some THEN tmp \cup {path} ELSE tmp
    IN IF cs.kind # "Cmd"
       THEN [res |-> Err(ReadError(t.name, <<"does not support file sources">>)),
             temps |-> tmp, args |-> <<>>, path |-> <<>>, steps |-> <<>>, log |-> <<>>]
       ELSE IF cs.stdout
       THEN IF ~out.spawned
            THEN CmdReturn(t, exec_failed, tmp, cs.args, <<>>, <<"spawn">>)
            ELSE StdoutChecked(t, out, Decoded(t, out.stdout), DecodeSteps(t, out.stdout), tmp)
       ELSE IF ~out.spawned THEN CmdReturn(t, exec_failed, tmp, args, path, <<"spawn">>)
       ELSE IF ~out.success THEN CmdReturn(t, TempExitError(t), written, args, path, <<"spawn">>)
       ELSE IF ~out.wrote.some
       THEN CmdReturn(t, Err(ReadError(t.name, <<"failed to read temp file", path>>)),
                      written, args, path, <<"spawn", "read">>)
       ELSE AfterRead(t, Decoded(t, out.wrote.val), DecodeSteps(t, out.wrote.val),
                      written, path, out.deleted, args)

\* Variant: the last accepting reader wins
SelectReader_Last(rs, t) ==
    LET acc == {i \in DOMAIN rs : can_read(rs[i], t)}
    IN IF acc = {} THEN 0 ELSE CHOOSE i \in acc : \A j \in acc : i >= j

\* Variant: the first reader is used when none accepts
SelectReader_DefaultFirst(rs, t) ==
    LET acc == {i \in DOMAIN rs : can_read(rs[i], t)}
    IN IF acc = {} THEN (IF rs = <<>> THEN 0 ELSE 1)
       ELSE CHOOSE i \in acc : \A j \in acc : i <= j

\* table_reader::read, the loop: position of the first reader that accepts,
\* 0 when the loop runs off the end of the list
SelectReader(rs, t) ==
    LET acc == {i \in DOMAIN rs : can_read(rs[i], t)}
    IN IF acc = {} THEN 0 ELSE CHOOSE i \in acc : \A j \in acc : i <= j

LoadError(kind, detail) == [kind |-> kind, detail |-> detail]

----------------------------------------------------------------------------
(* Inputs of load *)

GoodText == <<"a", ",", "b", Newline, "1", ",", "2", Newline>>
RaggedText == <<"a", ",", "b", Newline, "1", Newline>>

FileA == <<"a", ".", "c", "s", "v">>
FileB == <<"B", ".", "C", "S", "V">>
FileR == <<"r", ".", "c", "s", "v">>
FileM == <<"m", ".", "c", "s", "v">>
FileN == <<"n", ".", "t", "x", "t">>

DataFiles == (FileA :> GoodText) @@ (FileB :> GoodText) @@ (FileR :> RaggedText)
             @@ (FileN :> GoodText)

\* Arguments of a temp-file command: one without the token, one holding it
\* twice, one holding only a prefix of it
TempArgs ==
    << <<"-", "o">>,
       <<"-", "-", "o", "=">> \o TempToken \o <<",">> \o TempToken,
       SubSeq(TempToken, 1, 5) >>

LoadTableSpecs ==
    { TableSpec("city", TRUE, FileSource(FileA, "utf-8"), <<Name(<<"b">>), Name(<<"a">>)>>),
      TableSpec("upper", FALSE, FileSource(FileB, "utf-8"), <<Index(0)>>),
      TableSpec("missing", TRUE, FileSource(FileM, "utf-8"), <<Name(<<"a">>)>>),
      TableSpec("notes", TRUE, FileSource(FileN, "utf-8"), <<Name(<<"a">>)>>),
      TableSpec("ragged", FALSE, FileSource(FileR, "utf-8"), <<Index(1)>>),
      TableSpec("cmdout", TRUE, CmdSource("gen", <<>>, TRUE, "utf-8"), <<Name(<<"a">>)>>),
      TableSpec("cmdtmp", TRUE, CmdSource("gen", TempArgs, FALSE, "utf-8"), <<Name(<<"b">>)>>),
      TableSpec("legacy", TRUE, FileSource(FileA, "bogus"), <<Name(<<"a">>)>>),
      TableSpec("nohdr", FALSE, FileSource(FileA, "utf-8"), <<Name(<<"a">>)>>),
      TableSpec("cmdrag", FALSE, CmdSource("gen", <<>>, TRUE, "latin1"), <<Index(1)>>) }

Bytes(text, malformed) == [text |-> text, malformed |-> malformed]

Outcome(spawned, success, stdout, stderr, wrote, deleted) ==
    [spawned |-> spawned, success |-> success, stdout |-> stdout, stderr |-> stderr,
     wrote |-> wrote, deleted |-> deleted]

CmdOutcomes ==
    { Outcome(FALSE, FALSE, Bytes(<<>>, FALSE), <<>>, None, FALSE),
      Outcome(TRUE, FALSE, Bytes(GoodText, FALSE), <<Space, "e", Newline>>, Some(Bytes(GoodText, FALSE)), FALSE),
      Outcome(TRUE, TRUE, Bytes(GoodText, FALSE), <<>>, Some(Bytes(GoodText, FALSE)), TRUE),
      Outcome(TRUE, TRUE, Bytes(GoodText, FALSE), <<>>, Some(Bytes(GoodText, FALSE)), FALSE),
      Outcome(TRUE, TRUE, Bytes(GoodText, TRUE), <<>>, Some(Bytes(GoodText, TRUE)), TRUE),
      Outcome(TRUE, TRUE, Bytes(RaggedText, FALSE), <<>>, Some(Bytes(RaggedText, FALSE)), FALSE),
      Outcome(TRUE, TRUE, Bytes(RaggedText, FALSE), <<>>, None, FALSE),
      Outcome(TRUE, TRUE, Bytes(RaggedText, FALSE), <<>>, Some(Bytes(RaggedText, FALSE)), TRUE),
      Outcome(TRUE, FALSE, Bytes(RaggedText, TRUE), <<>>, Some(Bytes(RaggedText, TRUE)), FALSE) }

Project(ts) == [name |-> "test", api_version |-> "project.dbloada.io/v1", spec |-> [tables |-> ts]]

Projects == {Project(ts) : ts \in SeqsUpTo(LoadTableSpecs, MaxTables)}

ReaderLists == SeqsUpTo({"csv", "cmd_csv"}, MaxReaders)

Disks ==
    {[dir |-> d, project_file |-> "missing", stored |-> NotRun] : d \in {"missing", "file", "dir"}}
    \cup {[dir |-> "dir", project_file |-> f, stored |-> NotRun] : f \in {"malformed", "directory"}}
    \cup {[dir |-> "dir", project_file |-> "valid", stored |-> p] : p \in Projects}

----------------------------------------------------------------------------
(* Spec: LoadImpl::load *)

StripIdle == field = <<>> /\ stripped = NotRun /\ restripped = NotRun
ParseIdle == content = <<>> /\ table = NotRun /\ parsed = NotRun

StoreIdle == store = <<>> /\ saved = <<>> /\ io = NotRun
InitIdle ==
    /\ target = NotRun /\ request = NotRun /\ init_pc = "off" /\ init_i = 0
    /\ effects = <<>> /\ init_result = NotRun

LoadIdle ==
    /\ readers = <<>> /\ disk = NotRun /\ files = <<>> /\ temps = {} /\ uuid = 0
    /\ pc = "off" /\ project = NotRun /\ k = 0 /\ cur = 0 /\ tables = <<>>
    /\ calls = <<>> /\ returned = <<>> /\ result = NotRun
    /\ io_loads = 0 /\ log = <<>>

Init ==
    /\ readers \in ReaderLists
    /\ disk \in Disks
    /\ files = DataFiles
    /\ temps = {}
    /\ uuid = 0
    /\ pc = "idle"
    /\ project = NotRun
    /\ k = 0
    /\ cur = 0
    /\ tables = <<>>
    /\ calls = <<>>
    /\ returned = <<>>
    /\ result = NotRun
    /\ io_loads = 0
    /\ log = <<>>
    /\ StripIdle
    /\ ParseIdle
    /\ StoreIdle
    /\ InitIdle

\* Variant: the directory is not checked
PathChecks_NoDirectoryCheck(d) ==
    IF d.project_file = "missing" THEN Some(LoadError("ProjectFileNotFound", <<>>)) ELSE None

\* Variant: the project file is not checked
PathChecks_NoFileCheck(d) ==
    IF d.dir # "dir" THEN Some(LoadError("DirectoryNotFound", <<>>)) ELSE None

\* load, the two metadata checks: the error load returns before it turns to
\* the Project Store, if any.  A project file path that exists passes, whatever
\* it is.
PathChecks(d) ==
    IF d.dir # "dir" THEN Some(LoadError("DirectoryNotFound", <<>>))
    ELSE IF d.project_file = "missing" THEN Some(LoadError("ProjectFileNotFound", <<>>))
    ELSE None

\* YamlProjectIO::load: file_system.load, then deserialize
project_io_load(d) ==
    IF d.project_file \in {"missing", "directory"} THEN Err(<<"FileError">>)
    ELSE IF d.project_file = "malformed" THEN Err(<<"SerializationError">>)
    ELSE Ok(d.stored)

\* load up to the call of read_tables: directory check, project file check,
\* project_io.load
LoadStart ==
    /\ pc = "idle"
    /\ LET checked == PathChecks(disk)
           loaded == project_io_load(disk)
       IN IF checked.some
          THEN /\ result' = Err(checked.val)
               /\ pc' = "done"
               /\ UNCHANGED <<project, k, io_loads, log>>
          ELSE IF ~loaded.ok
          THEN /\ result' = Err(LoadError("IOError", loaded.err))
               /\ pc' = "done"
               /\ io_loads' = io_loads + 1
               /\ log' = log \o << LogEntry("debug", "loading project", "") >>
               /\ UNCHANGED <<project, k>>
          ELSE /\ project' = loaded.val
               /\ k' = 1
               /\ pc' = "read_tables"
               /\ io_loads' = io_loads + 1
               /\ log' = log \o << LogEntry("debug", "loading project", ""),
                                   LogEntry("info", "loaded project", "") >>
               /\ UNCHANGED result
    /\ UNCHANGED <<readers, disk, files, temps, uuid, cur, tables, calls, returned>>
    /\ UNCHANGED <<stripVars, parseVars, storeVars, initVars>>

\* Variant: a failed table is skipped and the loop goes on
Complete_SkipFailed(r, lg) ==
    /\ returned' = Append(returned, [table |-> k, res |-> r])
    /\ tables' = IF r.ok THEN Append(tables, r.val) ELSE tables
    /\ log' = IF r.ok THEN Append(lg, LogEntry("info", "loaded table", r.val.name)) ELSE lg
    /\ k' = k + 1
    /\ pc' = "read_tables"
    /\ UNCHANGED result

\* Variant: tables are collected newest first
Complete_Prepend(r, lg) ==
    /\ returned' = Append(returned, [table |-> k, res |-> r])
    /\ IF r.ok
       THEN /\ tables' = <<r.val>> \o tables
            /\ log' = Append(lg, LogEntry("info", "loaded table", r.val.name))
            /\ k' = k + 1
            /\ pc' = "read_tables"
            /\ UNCHANGED result
       ELSE /\ result' = Err(LoadError("TableReaderError", r.err))
            /\ log' = lg
            /\ pc' = "done"
            /\ UNCHANGED <<tables, k>>

\* Variant: a table whose read failed is read once more before load gives up
Complete_RetryOnce(r, lg) ==
    /\ returned' = Append(returned, [table |-> k, res |-> r])
    /\ IF r.ok
       THEN /\ tables' = Append(tables, r.val)
            /\ log' = Append(lg, LogEntry("info", "loaded table", r.val.name))
            /\ k' = k + 1
            /\ pc' = "read_tables"
            /\ UNCHANGED result
       ELSE IF \A i \in DOMAIN returned : returned[i].table # k
       THEN /\ log' = lg
            /\ pc' = "read_tables"
            /\ UNCHANGED <<tables, k, result>>
       ELSE /\ result' = Err(LoadError("TableReaderError", r.err))
            /\ log' = lg
            /\ pc' = "done"
            /\ UNCHANGED <<tables, k>>

\* read_tables: what happens to the value table_reader::read returned for
\* table k ('?' on an error, log and push on a table); lg is the log as the
\* read left it
Complete(r, lg) ==
    /\ returned' = Append(returned, [table |-> k, res |-> r])
    /\ IF r.ok
       THEN /\ tables' = Append(tables, r.val)
            /\ log' = Append(lg, LogEntry("info", "loaded table", r.val.name))
            /\ k' = k + 1
            /\ pc' = "read_tables"
            /\ UNCHANGED result
       ELSE /\ result' = Err(LoadError("TableReaderError", r.err))
            /\ log' = lg
            /\ pc' = "done"
            /\ UNCHANGED <<tables, k>>

\* A read_table invocation that has not returned yet
PendingCall(n, i) ==
    [table |-> n, reader |-> i, res |-> NotRun, out |-> NotRun, args |-> <<>>,
     path |-> <<>>, steps |-> <<>>, log |-> <<>>]

\* table_reader::read for table k: the loop over the readers
Dispatch ==
    /\ pc = "read_tables"
    /\ k <= Len(project.spec.tables)
    /\ LET t == project.spec.tables[k]
           i == SelectReader(readers, t)
           lg == Append(log, LogEntry("debug", "reading table", t.name))
       IN IF i = 0
          THEN /\ Complete(Err(NoReaderFound(t.name)), lg)
               /\ UNCHANGED <<cur, calls>>
          ELSE /\ cur' = i
               /\ calls' = Append(calls, PendingCall(k, i))
               /\ pc' = "read_table"
               /\ log' = lg
               /\ UNCHANGED <<k, tables, returned, result>>
    /\ UNCHANGED <<readers, disk, files, temps, uuid, project, io_loads>>
    /\ UNCHANGED <<stripVars, parseVars, storeVars, initVars>>

\* read_table returned c for the pending invocation: the invocation is
\* recorded and read_tables goes on with the result
ReadTableReturns(out, c) ==
    /\ calls' = [calls EXCEPT ![Len(calls)].res = c.res, ![Len(calls)].out = out,
                              ![Len(calls)].args = c.args, ![Len(calls)].path = c.path,
                              ![Len(calls)].steps = c.steps, ![Len(calls)].log = c.log]
    /\ Complete(c.res, log \o c.log)

\* The selected reader is a CsvTableReader
ReadTableCsv ==
    /\ pc = "read_table"
    /\ readers[cur] = "csv"
    /\ ReadTableReturns(NotRun, [args |-> <<>>, path |-> <<>>, steps |-> <<"load">>]
                                 @@ CsvReadTable(project.spec.tables[k], files))
    /\ UNCHANGED <<readers, disk, files, temps, uuid, project, cur, io_loads>>
    /\ UNCHANGED <<stripVars, parseVars, storeVars, initVars>>

\* A temp-file read uses up one fresh uuid
CmdReadTableReturns(fresh, out, c) ==
    /\ uuid' = IF fresh THEN uuid + 1 ELSE uuid
    /\ temps' = c.temps
    /\ ReadTableReturns(out, c)

\* The selected reader is a CmdCsvTableReader
ReadTableCmd ==
    /\ pc = "read_table"
    /\ readers[cur] = "cmd_csv"
    /\ \E out \in CmdOutcomes :
         CmdReadTableReturns(~project.spec.tables[k].source.stdout, out,
                             CmdReadTable(project.spec.tables[k], out, temps, uuid + 1))
    /\ UNCHANGED <<readers, disk, files, project, cur, io_loads>>
    /\ UNCHANGED <<stripVars, parseVars, storeVars, initVars>>

\* read_tables ran through every table: load returns the LoadedProject
LoadFinish ==
    /\ pc = "read_tables"
    /\ k > Len(project.spec.tables)
    /\ result' = Ok([project |-> project, tables |-> tables])
    /\ pc' = "done"
    /\ UNCHANGED <<readers, disk, files, temps, uuid, project, k, cur, tables, calls, returned,
                   io_loads, log>>
    /\ UNCHANGED <<stripVars, parseVars, storeVars, initVars>>

Next == LoadStart \/ Dispatch \/ ReadTableCsv \/ ReadTableCmd \/ LoadFinish

Spec == Init /\ [][Next]_vars

----------------------------------------------------------------------------
(* Properties of load and table_reader::read (Spec) *)

Accepting(t) == {j \in DOMAIN readers : can_read(readers[j], t)}
TableAt(n) == project.spec.tables[n]

\* C1: when the read of table k fails, load returns that very error and no
\* LoadedProject, the failed read is the last one dispatched, and read_table is
\* invoked for no table after k.
C1_FirstErrorAborts ==
    \A n \in DOMAIN returned :
        ~returned[n].res.ok =>
            /\ pc = "done"
            /\ result = Err(LoadError("TableReaderError", returned[n].res.err))
            /\ n = Len(returned)
            /\ \A c \in DOMAIN calls : calls[c].table <= returned[n].table

\* Table 1 of a two-table project fails on a missing file although table 2 is
\* readable; load is over.
C1_Witness ==
    /\ pc = "done"
    /\ project # NotRun
    /\ Len(project.spec.tables) = 2
    /\ Len(returned) = 1
    /\ returned[1].res = Err(FileSystemError(FileM))
    /\ Accepting(TableAt(2)) # {}

\* C2: when load succeeds the returned list has one table per declared table,
\* tables[i] is the table the read of Project.tables[i] produced and carries
\* its name, and the project returned is the stored one.
C2_TablesMirrorDeclaration ==
    (pc = "done" /\ result.ok) =>
        /\ result.val.project = disk.stored
        /\ Len(result.val.tables) = Len(project.spec.tables)
        /\ \A i \in DOMAIN result.val.tables :
              /\ result.val.tables[i].name = project.spec.tables[i].name
              /\ \E c \in DOMAIN calls :
                    calls[c].table = i /\ calls[c].res = Ok(result.val.tables[i])

\* A successful load of two differently named tables.
C2_Witness ==
    /\ pc = "done"
    /\ result.ok
    /\ Len(result.val.tables) = 2
    /\ result.val.tables[1].name # result.val.tables[2].name
    /\ result.val.tables[1].rows # <<>>

\* C9: read_table is invoked on the first reader of the list that accepts the
\* table and on no other reader (one invocation per dispatch, even when a
\* later reader accepts too), and read returns exactly what that reader
\* returned, table or error.
C9_FirstAcceptingReaderReads ==
    /\ \A c \in DOMAIN calls :
          /\ calls[c].reader \in Accepting(TableAt(calls[c].table))
          /\ \A j \in Accepting(TableAt(calls[c].table)) : calls[c].reader <= j
    /\ \A c, d \in DOMAIN calls : calls[c].table = calls[d].table => c = d
    /\ \A n \in DOMAIN returned :
          Accepting(TableAt(returned[n].table)) # {} =>
              \E c \in DOMAIN calls :
                  calls[c].table = returned[n].table /\ calls[c].res = returned[n].res

\* Two readers accept the table; the first one was invoked, failed, and its
\* error is what read returned.
C9_Witness ==
    \E n \in DOMAIN returned :
        /\ Cardinality(Accepting(TableAt(returned[n].table))) = 2
        /\ ~returned[n].res.ok
        /\ Len(calls) = n
        /\ calls[n].reader = 1

\* C10: when no reader of the list accepts the table (the empty list
\* included), read returns NoReaderFound with the table's name and read_table
\* is invoked on no reader for it.
C10_NoReaderFound ==
    /\ \A n \in DOMAIN returned :
          Accepting(TableAt(returned[n].table)) = {} =>
              /\ returned[n].res = Err(NoReaderFound(TableAt(returned[n].table).name))
              /\ \A c \in DOMAIN calls : calls[c].table # returned[n].table
    /\ \A c \in DOMAIN calls : Accepting(TableAt(calls[c].table)) # {}

\* Two readers are registered, neither accepts the second table.
C10_Witness ==
    /\ Len(readers) = 2
    /\ Len(returned) = 2
    /\ returned[2].res = Err(NoReaderFound(TableAt(2).name))
    /\ result = Err(LoadError("TableReaderError", NoReaderFound(TableAt(2).name)))

----------------------------------------------------------------------------
(* SpecStrip *)

InitStrip ==
    /\ field \in FieldValues
    /\ stripped = NotRun
    /\ restripped = NotRun
    /\ ParseIdle
    /\ LoadIdle
    /\ StoreIdle
    /\ InitIdle

StripOnce ==
    /\ stripped = NotRun
    /\ stripped' = Some(strip_csv_field(field))
    /\ UNCHANGED <<field, restripped, parseVars, loadVars, storeVars, initVars>>

StripAgain ==
    /\ stripped # NotRun
    /\ restripped = NotRun
    /\ restripped' = Some(strip_csv_field(stripped.val))
    /\ UNCHANGED <<field, stripped, parseVars, loadVars, storeVars, initVars>>

NextStrip == StripOnce \/ StripAgain

SpecStrip == InitStrip /\ [][NextStrip]_vars

----------------------------------------------------------------------------
(* SpecParse *)

InitParse ==
    /\ content \in Texts
    /\ table \in ParseSpecs
    /\ parsed = NotRun
    /\ StripIdle
    /\ LoadIdle
    /\ StoreIdle
    /\ InitIdle

Parse ==
    /\ parsed = NotRun
    /\ parsed' = parse(content, table)
    /\ UNCHANGED <<content, table, stripVars, loadVars, storeVars, initVars>>

NextParse == Parse

SpecParse == InitParse /\ [][NextParse]_vars

----------------------------------------------------------------------------
(* Properties of strip_csv_field (SpecStrip) *)

\* No surrounding whitespace and not wrapped in a pair of double quotes
IsClean(x) ==
    /\ x # <<>> => ~IsSpace(Head(x)) /\ ~IsSpace(x[Len(x)])
    /\ ~(Len(x) >= 2 /\ Head(x) = Quote /\ x[Len(x)] = Quote)

\* C8 as stated: stripping twice equals stripping once, for every field value.
C8_StripIdempotent ==
    restripped # NotRun => restripped.val = stripped.val

\* C8 amended: stripping leaves an already-clean value unchanged, so a second
\* application changes nothing whenever the first one produced a clean value.
C8_StripIdempotentOnClean ==
    /\ (stripped # NotRun /\ IsClean(field)) => stripped.val = field
    /\ (restripped # NotRun /\ IsClean(stripped.val)) => restripped.val = stripped.val

\* A value that the first application changed into a clean one, stripped again.
C8_Witness ==
    /\ restripped # NotRun
    /\ stripped.val # field
    /\ stripped.val # <<>>
    /\ IsClean(stripped.val)

----------------------------------------------------------------------------
(* Properties of parse (SpecParse) *)

Recs == CsvRecords(content)
Headers == CsvHeaders(Recs)
DataRecs == CsvDataRecords(Recs, table.has_header)
IdOf(j) == table.columns[j].column_identifier
NameColumns == {j \in DOMAIN table.columns : IdOf(j).kind = "Name"}
\* Positions of the header record hs whose canonical value is n
HeaderPositions(hs, n) == {p \in DOMAIN hs : strip_csv_field(hs[p]) = n}
UniformWidth(recs) == \A r \in DOMAIN recs : Len(recs[r]) = Len(recs[1])
FieldAt(rec, p) == IF p <= Len(rec) THEN rec[p] ELSE <<>>

\* C3: with a header and every declared column a Name found in the header,
\* each row parse yields has as its j-th cell the (canonical) field that sits
\* under the header named by the j-th declared column, one row per data
\* record; parse does yield the table when all records have one width.
C3_DeclaredColumnOrder ==
    (parsed # NotRun /\ table.has_header /\ NameColumns = DOMAIN table.columns) =>
        LET recs == Recs
            hs == CsvHeaders(recs)
        IN (\A j \in NameColumns : HeaderPositions(hs, IdOf(j).name) # {}) =>
              /\ UniformWidth(recs) => parsed.ok
              /\ parsed.ok =>
                    /\ Len(parsed.val.rows) = (IF recs = <<>> THEN 0 ELSE Len(recs) - 1)
                    /\ \A r \in DOMAIN parsed.val.rows : \A j \in DOMAIN table.columns :
                          \E p \in HeaderPositions(hs, IdOf(j).name) :
                              parsed.val.rows[r][j] = strip_csv_field(FieldAt(recs[r + 1], p))

\* Header a,b with declared columns [b, a] over the record a,b gives [b, a].
C3_Witness ==
    /\ parsed # NotRun
    /\ parsed.ok
    /\ table.has_header
    /\ Len(table.columns) = 2
    /\ IdOf(1) = Name(<<"b">>)
    /\ IdOf(2) = Name(<<"a">>)
    /\ Recs = << << <<"a">>, <<"b">> >>, << <<"a">>, <<"b">> >> >>
    /\ parsed.val.rows = << << <<"b">>, <<"a">> >> >>

C5_HeaderNotFound ==
    (parsed # NotRun /\ table.has_header /\ NameColumns # {}) =>
        LET hs == Headers
        IN (\E j \in NameColumns : HeaderPositions(hs, IdOf(j).name) = {}) =>
              /\ ~parsed.ok
              /\ parsed.err.kind = "ParseError"
              /\ parsed.err.message[1] = "header_not_found"
              /\ HeaderPositions(hs, parsed.err.message[3]) = {}

\* Header b only, declared columns [b, a]: the second name is absent.
C5_Witness ==
    /\ parsed # NotRun
    /\ table.has_header
    /\ Len(table.columns) = 2
    /\ IdOf(1) = Name(<<"b">>)
    /\ IdOf(2) = Name(<<"a">>)
    /\ Recs = << << <<"b">> >>, << <<"a">> >> >>
    /\ ~parsed.ok

\* C6: every table parse produces has as many columns as the TableSpec
\* declares and every row has exactly that many cells.
C6_RowWidth ==
    (parsed # NotRun /\ parsed.ok) =>
        /\ Len(parsed.val.columns) = Len(table.columns)
        /\ \A r \in DOMAIN parsed.val.rows :
              Len(parsed.val.rows[r]) = Len(parsed.val.columns)

\* Two declared columns over two one-field records: position 1 is beyond them.
C6_Witness ==
    /\ parsed # NotRun
    /\ parsed.ok
    /\ ~table.has_header
    /\ Len(table.columns) = 2
    /\ IdOf(2) = Index(1)
    /\ Recs = << << <<"a">> >>, << <<"b">> >> >>
    /\ Len(parsed.val.rows) = 2

\* C7 as stated: when the columns resolve and some record has fewer fields
\* than a resolved position, parse succeeds and every cell whose resolved
\* position is at or beyond its record's width is the empty string, also when
\* the records differ in width.
C7_ShortRowsPadded ==
    parsed # NotRun =>
        LET recs == Recs
            data == CsvDataRecords(recs, table.has_header)
            indices == resolve_column_indices(table,
                           IF table.has_header THEN Some(HeaderMap(CsvHeaders(recs))) ELSE None)
        IN (/\ indices.ok
            /\ \E r \in DOMAIN data : \E j \in DOMAIN table.columns :
                  indices.val[j] >= Len(data[r])) =>
              /\ parsed.ok
              /\ Len(parsed.val.rows) = Len(data)
              /\ \A r \in DOMAIN data : \A j \in DOMAIN table.columns :
                    indices.val[j] >= Len(data[r]) => parsed.val.rows[r][j] = <<>>

----------------------------------------------------------------------------
(* Properties of CmdCsvTableReader::read_table (Spec) *)

\* read_table invocations that ran a command and have returned
CmdCalls == {c \in DOMAIN calls : calls[c].out # NotRun}
SourceOf(c) == TableAt(calls[c].table).source
TempCalls == {c \in CmdCalls : ~SourceOf(c).stdout}

\* C11: a command that started and exited with a non-zero status makes
\* read_table return a ReadError carrying the table's name, in both delivery
\* modes, and no table is collected for it; in captured-stdout mode the
\* message holds the captured stderr text with surrounding whitespace removed.
C11_NonZeroExitIsReadError ==
    \A c \in CmdCalls :
        (calls[c].out.spawned /\ ~calls[c].out.success) =>
            /\ ~calls[c].res.ok
            /\ calls[c].res.err.kind = "ReadError"
            /\ calls[c].res.err.table_name = TableAt(calls[c].table).name
            /\ Len(tables) < calls[c].table
            /\ SourceOf(c).stdout =>
                  /\ Len(calls[c].res.err.message) = 3
                  /\ calls[c].res.err.message[3] = Trim(calls[c].out.stderr)

\* After a successful temp-file read, a captured-stdout command printed
\* " e\n" on stderr and failed although it also printed a well-formed text.
C11_Witness ==
    /\ Len(calls) = 2
    /\ CmdCalls = {1, 2}
    /\ ~SourceOf(1).stdout
    /\ calls[1].res.ok
    /\ SourceOf(2).stdout
    /\ calls[2].out.spawned
    /\ ~calls[2].out.success
    /\ calls[2].out.stdout.text = GoodText
    /\ calls[2].out.stderr = <<Space, "e", Newline>>
    /\ calls[2].res.err.message[3] = <<"e">>
    /\ Len(tables) = 1

\* The temp path generated for invocation c: one fresh path per temp-file read
PathOf(c) == TempPath(Cardinality({d \in TempCalls : d <= c}))

\* Start positions of the token in an argument string
TokenHits(s) ==
    {i \in 1..Len(s) : i + Len(TempToken) - 1 <= Len(s)
                       /\ SubSeq(s, i, i + Len(TempToken) - 1) = TempToken}

\* r is s with the text at every token occurrence replaced by path and every
\* other character kept, in order
EveryOccurrenceReplaced(s, r, path) ==
    LET n == Len(TempToken)
        grow == Len(path) - n
        shift(i) == Cardinality({h \in TokenHits(s) : h < i}) * grow
        inside(i) == \E h \in TokenHits(s) : h <= i /\ i < h + n
    IN /\ Len(r) = Len(s) + Cardinality(TokenHits(s)) * grow
       /\ \A h \in TokenHits(s) : SubSeq(r, h + shift(h), h + shift(h) + Len(path) - 1) = path
       /\ \A i \in 1..Len(s) : ~inside(i) => r[i + shift(i)] = s[i]

\* C12: in temp-file mode the command is given as many arguments as are
\* declared, in the declared order; each is the declared argument with every
\* occurrence of $TEMP_CSV_PATH replaced by the generated temp path, and an
\* argument without the token is given unchanged.
C12_EveryTokenSubstituted ==
    \A c \in TempCalls :
        /\ Len(calls[c].args) = Len(SourceOf(c).args)
        /\ \A a \in DOMAIN SourceOf(c).args :
              /\ EveryOccurrenceReplaced(SourceOf(c).args[a], calls[c].args[a], PathOf(c))
              /\ TokenHits(SourceOf(c).args[a]) = {} => calls[c].args[a] = SourceOf(c).args[a]

\* The second temp-file read of a load: "-o" and the token prefix "$TEMP" are
\* passed as declared, "--o=$TEMP_CSV_PATH,$TEMP_CSV_PATH" has both
\* occurrences replaced by the second temp path.
C12_Witness ==
    /\ Len(calls) = 2
    /\ TempCalls = {1, 2}
    /\ Cardinality(TokenHits(SourceOf(2).args[2])) = 2
    /\ calls[2].args = << <<"-", "o">>,
                          <<"-", "-", "o", "=">> \o TempPath(2) \o <<",">> \o TempPath(2),
                          <<"$", "T", "E", "M", "P">> >>

\* C13: when a temp-file read returned a table and the removal of the temp
\* file did not fail, the file generated for that read is not on disk once
\* read_table has returned.
C13_TempFileRemovedOnSuccess ==
    \A c \in TempCalls :
        (calls[c].res.ok /\ calls[c].out.deleted) => PathOf(c) \notin temps

\* Two temp-file reads returned tables; the removal failed for the first and
\* succeeded for the second, whose file is gone while the first one's is left.
C13_Witness ==
    /\ Len(calls) = 2
    /\ TempCalls = {1, 2}
    /\ calls[1].res.ok
    /\ ~calls[1].out.deleted
    /\ calls[2].res.ok
    /\ calls[2].out.wrote.some
    /\ calls[2].out.deleted
    /\ temps = {TempPath(1)}

\* Temp-file reads that reached the removal of the temp file and saw it fail
FailedRemovals ==
    {c \in TempCalls : /\ calls[c].out.spawned /\ calls[c].out.success
                       /\ calls[c].out.wrote.some /\ ~calls[c].out.deleted}

\* What the same read gives when the removal succeeds
WithRemoval(c) ==
    CmdReadTable(TableAt(calls[c].table), [calls[c].out EXCEPT !.deleted = TRUE], {}, 1)

\* C14 as stated: when the removal of the temp file fails, read_table returns
\* what it returns when the removal succeeds (the table, or the decode or
\* parse error), and the reader writes a log entry about the failed removal,
\* that is, an entry it does not write when the removal succeeds.
C14_RemovalFailureLogged ==
    \A c \in FailedRemovals :
        /\ calls[c].res = WithRemoval(c).res
        /\ \E i \in DOMAIN calls[c].log :
              \A j \in DOMAIN WithRemoval(c).log : calls[c].log[i] # WithRemoval(c).log[j]

----------------------------------------------------------------------------
(* Properties of load before the first table (Spec) *)

\* C15: when the path given to load is missing or is not a directory, load
\* returns DirectoryNotFound, project_io.load is never called, no project is
\* obtained and no table read is dispatched or performed.
C15_DirectoryNotFound ==
    disk.dir # "dir" =>
        /\ io_loads = 0
        /\ project = NotRun
        /\ calls = <<>>
        /\ returned = <<>>
        /\ pc = "done" => result = Err(LoadError("DirectoryNotFound", <<>>))

\* load has returned for a path that is a regular file.
C15_Witness ==
    /\ disk.dir = "file"
    /\ pc = "done"
    /\ result = Err(LoadError("DirectoryNotFound", <<>>))
    /\ readers # <<>>

\* C16: in an existing directory without dbloada.yaml load returns
\* ProjectFileNotFound and project_io.load is never called; with a malformed
\* dbloada.yaml load returns the error project_io.load gave, its
\* serialization error; in both cases no table read is dispatched or
\* performed.
C16_ProjectFileNotFound ==
    /\ (disk.dir = "dir" /\ disk.project_file = "missing") =>
          /\ io_loads = 0
          /\ calls = <<>>
          /\ returned = <<>>
          /\ pc = "done" => result = Err(LoadError("ProjectFileNotFound", <<>>))
    /\ (disk.dir = "dir" /\ disk.project_file = "malformed") =>
          /\ calls = <<>>
          /\ returned = <<>>
          /\ pc = "done" =>
                /\ io_loads = 1
                /\ result = Err(LoadError("IOError", <<"SerializationError">>))

\* load has returned for a directory that holds no dbloada.yaml.
C16_Witness ==
    /\ disk.dir = "dir"
    /\ disk.project_file = "missing"
    /\ pc = "done"
    /\ result = Err(LoadError("ProjectFileNotFound", <<>>))
    /\ readers # <<>>

----------------------------------------------------------------------------
(* Properties of decoding and of the two readers side by side (Spec) *)

Utf8Labels == {"utf-8", "utf8", "UTF-8", "UTF8"}

\* The bytes invocation c obtained from its source, if it got that far
BytesRead(c) ==
    LET src == SourceOf(c)
        out == calls[c].out
    IN IF src.kind = "File"
       THEN IF src.filename \in DOMAIN files THEN Some(Bytes(files[src.filename], FALSE)) ELSE None
       ELSE IF ~(out.spawned /\ out.success) THEN None
       ELSE IF src.stdout THEN Some(out.stdout)
       ELSE out.wrote

\* C17 as stated: whenever a reader, for a File or a Cmd source, obtained the
\* source's bytes and the declared encoding is not UTF-8, an unrecognized
\* label or a byte sequence malformed under the encoding makes the read fail
\* with a ReadError; no table is returned.
C17_StrictDecoding ==
    \A c \in DOMAIN calls :
        (/\ calls[c].res # NotRun
         /\ SourceOf(c).character_encoding \notin Utf8Labels
         /\ BytesRead(c).some
         /\ \/ SourceOf(c).character_encoding \notin KnownEncodings
            \/ BytesRead(c).val.malformed) =>
            /\ ~calls[c].res.ok
            /\ calls[c].res.err.kind = "ReadError"

\* read_table invocations of a CsvTableReader that loaded their file
FileCalls ==
    {c \in DOMAIN calls : /\ calls[c].res # NotRun
                          /\ readers[calls[c].reader] = "csv"
                          /\ SourceOf(c).filename \in DOMAIN files}

\* What a CmdCsvTableReader returns for the table specification of invocation
\* c when its command delivers the text of c's file, by stdout or by temp file
ViaCommand(c, by_stdout) ==
    LET text == Bytes(files[SourceOf(c).filename], FALSE)
        t == [TableAt(calls[c].table) EXCEPT !.source = CmdSource("gen", <<>>, by_stdout, "utf-8")]
    IN CmdReadTable(t, Outcome(TRUE, TRUE, text, <<>>, Some(text), TRUE), {}, 1).res

\* C18 as stated: for the same text and the same has_header and columns, the
\* CsvTableReader and the CmdCsvTableReader (either delivery mode) both
\* succeed with equal tables or both fail with an error of the same kind, the
\* parser's ParseError.
C18_SourceOriginInvisible ==
    \A c \in FileCalls : \A by_stdout \in BOOLEAN :
        LET f == calls[c].res
            g == ViaCommand(c, by_stdout)
        IN /\ f.ok = g.ok
           /\ f.ok => f.val = g.val
           /\ ~f.ok => (f.err.kind = g.err.kind /\ f.err.kind = "ParseError")

----------------------------------------------------------------------------
(* Properties of error propagation (Spec) *)

\* The error a failed read of table n started out as: the error the invoked
\* reader returned, or the dispatcher's NoReaderFound when none was invoked
ProducedFor(n) ==
    IF \E c \in DOMAIN calls : calls[c].table = n
    THEN calls[CHOOSE c \in DOMAIN calls : calls[c].table = n].res.err
    ELSE NoReaderFound(TableAt(n).name)

CarriesTableName(e, name) ==
    /\ e.kind \in {"ReadError", "ParseError", "NoReaderFound"}
    /\ e.table_name = name

\* C19 as stated: when the read of a table fails, the error load returns is
\* the very error the reader (or the dispatcher) produced, of the same kind
\* and with the same message, load returns no project, and that error carries
\* the name of the failed table.
C19_ErrorsForwardedUnchanged ==
    \A n \in DOMAIN returned :
        ~returned[n].res.ok =>
            /\ returned[n].res.err = ProducedFor(returned[n].table)
            /\ pc = "done"
            /\ ~result.ok
            /\ result.err.kind = "TableReaderError"
            /\ result.err.detail = ProducedFor(returned[n].table)
            /\ CarriesTableName(result.err.detail, TableAt(returned[n].table).name)

----------------------------------------------------------------------------
(* Properties of the assembled table (SpecParse) *)

\* C20: every table parse returns is named after the TableSpec and its
\* columns are the declared column names in declaration order, whatever the
\* header of the text says.
C20_DeclaredNamesAndColumns ==
    (parsed # NotRun /\ parsed.ok) =>
        /\ parsed.val.name = table.name
        /\ DOMAIN parsed.val.columns = DOMAIN table.columns
        /\ \A j \in DOMAIN table.columns : parsed.val.columns[j] = table.columns[j].name

\* Header a,b read through declared columns c1 <- b, c2 <- a: the columns are
\* c1, c2 and the row is taken in that order.
C20_Witness ==
    /\ parsed # NotRun
    /\ parsed.ok
    /\ table.has_header
    /\ Len(table.columns) = 2
    /\ IdOf(1) = Name(<<"b">>)
    /\ IdOf(2) = Name(<<"a">>)
    /\ Len(Recs) = 2
    /\ Headers = << <<"a">>, <<"b">> >>
    /\ parsed.val.name = "t"
    /\ parsed.val.columns = << ColName(1), ColName(2) >>
    /\ Len(parsed.val.rows) = 1

----------------------------------------------------------------------------
(* Order and number of the reads of one load (Spec) *)

\* Invocations of read_table that have not returned
Pending == {c \in DOMAIN calls : calls[c].res = NotRun}

\* Number of times invocation c performed operation op
Times(c, op) == Cardinality({i \in DOMAIN calls[c].steps : calls[c].steps[i] = op})

\* C23: tables are read one at a time in declaration order: at most one
\* read_table invocation (and so at most one command) is in progress, it is the
\* latest one, every invocation before it returned a table, invocations follow
\* the order of the table specifications, and when the read of a table starts
\* every table declared before it has been read successfully.
C23_OneTableAtATime ==
    /\ Cardinality(Pending) <= 1
    /\ \A c \in DOMAIN calls : c < Len(calls) => (calls[c].res # NotRun /\ calls[c].res.ok)
    /\ \A c, d \in DOMAIN calls : c < d => calls[c].table < calls[d].table
    /\ \A c \in DOMAIN calls : \A m \in 1..(calls[c].table - 1) :
          \E r \in DOMAIN returned : returned[r].table = m /\ returned[r].res.ok

\* The command of the second table is running; the command read of the first
\* table has returned its table.
C23_Witness ==
    /\ pc = "read_table"
    /\ Len(calls) = 2
    /\ Pending = {2}
    /\ calls[1].out # NotRun
    /\ calls[1].res.ok
    /\ TableAt(2).source.kind = "Cmd"
    /\ Len(tables) = 1

\* C24: nothing is retried: within one load each table specification is handed
\* to table_reader::read at most once and to a reader at most once, an
\* invocation spawns its command at most once and loads its file at most once,
\* and a failed read is the last thing load does.
C24_NoRetry ==
    /\ \A r, q \in DOMAIN returned : returned[r].table = returned[q].table => r = q
    /\ \A c, d \in DOMAIN calls : calls[c].table = calls[d].table => c = d
    /\ \A c \in DOMAIN calls : Times(c, "spawn") <= 1 /\ Times(c, "load") <= 1
    /\ \A r \in DOMAIN returned : ~returned[r].res.ok => (r = Len(returned) /\ pc = "done")
    /\ project # NotRun => Len(returned) <= Len(project.spec.tables)

\* A command exited with a non-zero status: it was spawned once, and load is
\* over with that error.
C24_Witness ==
    /\ pc = "done"
    /\ Len(calls) = 1
    /\ Len(returned) = 1
    /\ calls[1].out # NotRun
    /\ calls[1].out.spawned
    /\ ~calls[1].out.success
    /\ Times(1, "spawn") = 1
    /\ ~result.ok

\* The last four characters are ".csv" in any mix of upper and lower case
EndsInDotCsv(s) ==
    /\ Len(s) >= 4
    /\ s[Len(s) - 3] = "."
    /\ s[Len(s) - 2] \in {"c", "C"}
    /\ s[Len(s) - 1] \in {"s", "S"}
    /\ s[Len(s)] \in {"v", "V"}

\* C25: for every table specification of the project at most one of the two
\* readers accepts it; the CsvTableReader accepts exactly the File sources
\* whose file name ends in ".csv" in any case, the CmdCsvTableReader exactly
\* the Cmd sources; and the reader an invocation ran on is one that accepts.
C25_CanReadExclusive ==
    /\ project # NotRun =>
         \A n \in DOMAIN project.spec.tables :
            /\ ~(can_read("csv", TableAt(n)) /\ can_read("cmd_csv", TableAt(n)))
            /\ can_read("csv", TableAt(n))
                 <=> (TableAt(n).source.kind = "File" /\ EndsInDotCsv(TableAt(n).source.filename))
            /\ can_read("cmd_csv", TableAt(n)) <=> (TableAt(n).source.kind = "Cmd")
    /\ \A c \in DOMAIN calls :
          IF readers[calls[c].reader] = "csv"
          THEN SourceOf(c).kind = "File" /\ EndsInDotCsv(SourceOf(c).filename)
          ELSE SourceOf(c).kind = "Cmd"

\* "B.CSV" was read by the CsvTableReader, and the Cmd source declared after it
\* by the CmdCsvTableReader.
C25_Witness ==
    /\ Len(calls) = 2
    /\ readers[calls[1].reader] = "csv"
    /\ SourceOf(1).filename = FileB
    /\ calls[1].res.ok
    /\ readers[calls[2].reader] = "cmd_csv"
    /\ SourceOf(2).kind = "Cmd"
    /\ calls[2].res # NotRun

----------------------------------------------------------------------------
(* The temp file of a temp-file read (Spec) *)

Did(c, op) == Times(c, op) > 0

\* Every a invocation c performed came before every b it performed
Before(c, a, b) ==
    \A i, j \in DOMAIN calls[c].steps :
        (calls[c].steps[i] = a /\ calls[c].steps[j] = b) => i < j

C30_ExitStatusCheckedFirst ==
    \A c \in CmdCalls :
        (calls[c].out.spawned /\ ~calls[c].out.success) =>
            /\ calls[c].steps = <<"spawn">>
            /\ ~calls[c].res.ok
            /\ calls[c].res.err.kind = "ReadError"
            /\ calls[c].res.err.message[1] = "exited with status"
            /\ Len(tables) < calls[c].table
            /\ result = Err(LoadError("TableReaderError", calls[c].res.err))

\* A captured-stdout command printed bytes that are neither valid in the
\* declared encoding nor rectangular CSV and exited with a non-zero status:
\* the error is the exit-status error.
C30_Witness ==
    /\ Len(calls) = 1
    /\ CmdCalls = {1}
    /\ SourceOf(1).stdout
    /\ calls[1].out.spawned
    /\ ~calls[1].out.success
    /\ calls[1].out.stdout.malformed
    /\ calls[1].out.stdout.text = RaggedText
    /\ calls[1].res.err.message[1] = "exited with status"
    /\ pc = "done"

----------------------------------------------------------------------------
(* Duplicate header names and the rows of a table (SpecParse) *)

\* The last of a non-empty set of positions
LastOf(S) == CHOOSE p \in S : \A q \in S : q <= p

\* C27: on a successful parse with a header, a declared column with a Name
\* identifier holds in every row the (canonical) field at the last position
\* whose header has that name.
C27_LastDuplicateHeaderWins ==
    (parsed # NotRun /\ parsed.ok /\ table.has_header) =>
        LET recs == Recs
            hs == CsvHeaders(recs)
        IN \A j \in NameColumns :
              /\ HeaderPositions(hs, IdOf(j).name) # {}
              /\ \A r \in DOMAIN parsed.val.rows :
                    parsed.val.rows[r][j]
                      = strip_csv_field(FieldAt(recs[r + 1],
                                                LastOf(HeaderPositions(hs, IdOf(j).name))))

\* The header a, "a" names both positions a; the record a,"b" gives the
\* declared column a the value b of the second position.
C27_Witness ==
    /\ parsed # NotRun
    /\ parsed.ok
    /\ table.has_header
    /\ Len(table.columns) = 1
    /\ IdOf(1) = Name(<<"a">>)
    /\ Recs = << << <<"a">>, <<Quote, "a", Quote>> >>, << <<"a">>, <<"b">> >> >>
    /\ HeaderPositions(Headers, <<"a">>) = {1, 2}
    /\ parsed.val.rows = << << <<"b">> >> >>

\* C28: a successful parse yields one row per data record, in source order:
\* with a header the rows are made from the records after the first, without
\* one from all records, so a header alone gives no row; the cell of a column
\* declared by Index is the field at that position of the row's own record.
C28_OneRowPerDataRecord ==
    (parsed # NotRun /\ parsed.ok) =>
        LET recs == Recs
            skip == IF table.has_header /\ recs # <<>> THEN 1 ELSE 0
        IN /\ Len(parsed.val.rows) = Len(recs) - skip
           /\ \A r \in DOMAIN parsed.val.rows : \A j \in DOMAIN table.columns :
                 IdOf(j).kind = "Index" =>
                    parsed.val.rows[r][j]
                      = strip_csv_field(FieldAt(recs[r + skip], IdOf(j).index + 1))

\* A header and nothing else: the table has no rows.
C28_Witness ==
    /\ parsed # NotRun
    /\ parsed.ok
    /\ table.has_header
    /\ Len(Recs) = 1
    /\ table.columns # <<>>
    /\ parsed.val.rows = <<>>

----------------------------------------------------------------------------
(* SpecStore: YamlProjectIO over a FileSystem and the YAML serialization *)

Int64 == [kind |-> "Int64"]
StringType(max_length) == [kind |-> "String", max_length |-> max_length]

\* column_type_to_string: "int64", "string" or "string(<len>)"
column_type_to_string(ct) ==
    IF ct.kind = "Int64" THEN <<"int64">>
    ELSE IF ~ct.max_length.some THEN <<"string">>
    ELSE <<"string(", ToString(ct.max_length.val), ")">>

\* Largest max_length whose decimal form parse_column_type is given
MaxTypeLen == 3

\* parse_column_type on the (trimmed) type string
parse_column_type(s) ==
    IF s = <<"int64">> THEN Ok(Int64)
    ELSE IF s = <<"string">> THEN Ok(StringType(None))
    ELSE IF Len(s) = 3 /\ s[1] = "string(" /\ s[3] = ")"
    THEN IF \E n \in 0..MaxTypeLen : ToString(n) = s[2]
         THEN Ok(StringType(Some(CHOOSE n \in 0..MaxTypeLen : ToString(n) = s[2])))
         ELSE Err(<<"invalid max_length">>)
    ELSE Err(<<"unknown column type">>)

\* A YAML scalar: ColumnIdentifierYaml is untagged, an Index is written as an
\* integer and a Name as a string
YamlInt(i) == [scalar |-> "int", value |-> i]
YamlStr(n) == [scalar |-> "str", value |-> n]

column_to_yaml(col) ==
    [name |-> col.name, description |-> col.description,
     columnIdentifier |-> IF col.column_identifier.kind = "Index"
                          THEN YamlInt(col.column_identifier.index)
                          ELSE YamlStr(col.column_identifier.name),
     type |-> column_type_to_string(col.column_type)]

\* column_from_yaml: the type string is parsed first; an integer scalar is an
\* Index, a string scalar a Name
column_from_yaml(y) ==
    LET ct == parse_column_type(y.type)
    IN IF ~ct.ok THEN Err([kind |-> "DeserializeError", detail |-> ct.err])
       ELSE Ok([name |-> y.name, description |-> y.description,
                column_identifier |-> IF y.columnIdentifier.scalar = "int"
                                      THEN [kind |-> "Index", index |-> y.columnIdentifier.value]
                                      ELSE [kind |-> "Name", name |-> y.columnIdentifier.value],
                column_type |-> ct.val])

table_to_yaml(t) ==
    [name |-> t.name, description |-> t.description, hasHeader |-> t.has_header,
     source |-> [filename |-> t.source.filename,
                 characterEncoding |-> t.source.character_encoding],
     columns |-> [j \in DOMAIN t.columns |-> column_to_yaml(t.columns[j])],
     relationships |-> t.relationships]

\* table_from_yaml: the first column that fails to convert fails the table
table_from_yaml(y) ==
    LET bad == {j \in DOMAIN y.columns : ~column_from_yaml(y.columns[j]).ok}
    IN IF bad # {}
       THEN column_from_yaml(y.columns[CHOOSE j \in bad : \A i \in bad : j <= i])
       ELSE Ok([name |-> y.name, description |-> y.description, has_header |-> y.hasHeader,
                source |-> [kind |-> "File", filename |-> y.source.filename,
                            character_encoding |-> y.source.characterEncoding],
                columns |-> [j \in DOMAIN y.columns |-> column_from_yaml(y.columns[j]).val],
                relationships |-> y.relationships])

spec_to_yaml(spec) == [tables |-> [n \in DOMAIN spec.tables |-> table_to_yaml(spec.tables[n])]]

\* spec_from_yaml: no spec in the document is a project without tables
spec_from_yaml(y) ==
    IF ~y.some THEN Ok([tables |-> <<>>])
    ELSE LET bad == {n \in DOMAIN y.val.tables : ~table_from_yaml(y.val.tables[n]).ok}
         IN IF bad # {}
            THEN table_from_yaml(y.val.tables[CHOOSE n \in bad : \A i \in bad : n <= i])
            ELSE Ok([tables |-> [n \in DOMAIN y.val.tables |->
                                    table_from_yaml(y.val.tables[n]).val]])

PROJECT_KIND == "DBLoadaProject"

\* serialize_to_yaml: the document written for a project; spec is left out
\* when the project has no tables
serialize_to_yaml(p) ==
    [apiVersion |-> p.api_version, kind |-> PROJECT_KIND, metadata |-> [name |-> p.name],
     spec |-> IF p.spec.tables = <<>> THEN None ELSE Some(spec_to_yaml(p.spec))]

\* deserialize_from_yaml: content that is no project document, a document of
\* another kind, a table that does not convert
deserialize_from_yaml(doc) ==
    IF "kind" \notin DOMAIN doc THEN Err([kind |-> "DeserializeError", detail |-> <<"yaml">>])
    ELSE IF doc.kind # PROJECT_KIND
    THEN Err([kind |-> "UnexpectedKind", expected |-> PROJECT_KIND, actual |-> doc.kind])
    ELSE LET spec == spec_from_yaml(doc.spec)
         IN IF ~spec.ok THEN spec
            ELSE Ok([name |-> doc.metadata.name, api_version |-> doc.apiVersion,
                     spec |-> spec.val])

\* Variant: a file that exists is left as it is
file_system_save_KeepExisting(fs, doc, path) ==
    IF fs[path].some THEN fs ELSE [fs EXCEPT ![path] = Some(doc)]

\* FileSystem::save that returned Ok: the path holds the content
file_system_save(fs, doc, path) == [fs EXCEPT ![path] = Some(doc)]

\* FileSystem::load: the content at the path, ReadError without one
file_system_load(fs, path) ==
    IF fs[path].some THEN Ok(fs[path].val)
    ELSE Err([kind |-> "FileError", detail |-> [kind |-> "ReadError", path |-> path]])

\* YamlProjectIO::load: file_system.load, then deserialize
yaml_project_io_load(fs, path) ==
    LET read == file_system_load(fs, path)
    IN IF ~read.ok THEN read
       ELSE LET p == deserialize_from_yaml(read.val)
            IN IF p.ok THEN p ELSE Err([kind |-> "SerializationError", detail |-> p.err])

StorePaths == {"/projects/a/dbloada.yaml", "/projects/b/dbloada.yaml"}

StoreProject(name, ts) ==
    [name |-> name, api_version |-> "project.dbloada.io/v1", spec |-> [tables |-> ts]]

StoreColumn(name, id, type) ==
    [name |-> name, description |-> "", column_identifier |-> id, column_type |-> type]

\* A table with a File source, an Index column, a Name column whose name
\* reads as a number, and the three forms of column type
StoreTable ==
    [name |-> "city", description |-> "Cities", has_header |-> TRUE,
     source |-> [kind |-> "File", filename |-> "data/cities.csv", character_encoding |-> "utf-8"],
     columns |-> << StoreColumn("id", [kind |-> "Index", index |-> 0], Int64),
                    StoreColumn("code", [kind |-> "Name", name |-> "0"], StringType(Some(MaxTypeLen))),
                    StoreColumn("name", [kind |-> "Name", name |-> "Name"], StringType(None)) >>,
     relationships |-> <<>>]

StoreProjects ==
    { StoreProject("first", <<>>), StoreProject("second", <<>>),
      StoreProject("first", <<StoreTable>>) }

InitStore ==
    /\ store = [q \in StorePaths |-> None]
    /\ saved = [q \in StorePaths |-> None]
    /\ io = NotRun
    /\ StripIdle
    /\ ParseIdle
    /\ LoadIdle
    /\ InitIdle

\* YamlProjectIO::save: serialize, then file_system.save, which either stores
\* the content or fails and leaves the path as it was
Save ==
    \E p \in StoreProjects, path \in StorePaths, written \in BOOLEAN :
        /\ IF written
           THEN /\ store' = file_system_save(store, serialize_to_yaml(p), path)
                /\ saved' = [saved EXCEPT ![path] = Some(p)]
                /\ io' = [op |-> "save", path |-> path, project |-> p, res |-> Ok(<<>>)]
           ELSE /\ io' = [op |-> "save", path |-> path, project |-> p,
                          res |-> Err([kind |-> "FileError",
                                       detail |-> [kind |-> "WriteError", path |-> path]])]
                /\ UNCHANGED <<store, saved>>
        /\ UNCHANGED <<stripVars, parseVars, loadVars, initVars>>

\* YamlProjectIO::load
Load ==
    \E path \in StorePaths :
        /\ io' = [op |-> "load", path |-> path, project |-> NotRun,
                  res |-> yaml_project_io_load(store, path)]
        /\ UNCHANGED <<store, saved>>
        /\ UNCHANGED <<stripVars, parseVars, loadVars, initVars>>

NextStore == Save \/ Load

SpecStore == InitStore /\ [][NextStore]_vars

\* C21: whatever saves and loads came before, load at a path returns the
\* project given to the latest save at that path that returned Ok, equal in
\* every field, and a FileError when no save at that path returned Ok; this
\* holds for the load just made and for a load at any path in any state, so a
\* save at one path changes nothing for another.
C21_LoadReturnsLatestSave ==
    /\ \A q \in StorePaths :
          yaml_project_io_load(store, q)
            = (IF saved[q].some THEN Ok(saved[q].val)
               ELSE Err([kind |-> "FileError", detail |-> [kind |-> "ReadError", path |-> q]]))
    /\ (io # NotRun /\ io.op = "load") =>
          IF saved[io.path].some
          THEN io.res = Ok(saved[io.path].val)
          ELSE ~io.res.ok /\ io.res.err.kind = "FileError"

\* Path a was saved twice, last with the project that has a table; path b holds
\* another project; the load at a returned the project with the table.
C21_Witness ==
    /\ io # NotRun
    /\ io.op = "load"
    /\ io.path = "/projects/a/dbloada.yaml"
    /\ saved["/projects/a/dbloada.yaml"] = Some(StoreProject("first", <<StoreTable>>))
    /\ saved["/projects/b/dbloada.yaml"] = Some(StoreProject("second", <<>>))
    /\ io.res = Ok(StoreProject("first", <<StoreTable>>))
    /\ store["/projects/a/dbloada.yaml"].val.spec.val.tables[1].columns[2].type
         = <<"string(", ToString(MaxTypeLen), ")">>

----------------------------------------------------------------------------
(* SpecInit: InitImpl::init *)

AsciiUpper == <<"A", "B", "C", "D", "E", "F", "G", "H", "I", "J", "K", "L", "M",
                "N", "O", "P", "Q", "R", "S", "T", "U", "V", "W", "X", "Y", "Z">>
AsciiLower == <<"a", "b", "c", "d", "e", "f", "g", "h", "i", "j", "k", "l", "m",
                "n", "o", "p", "q", "r", "s", "t", "u", "v", "w", "x", "y", "z">>
AsciiDigit == {"0", "1", "2", "3", "4", "5", "6", "7", "8", "9"}

is_ascii_lowercase(c) == \E i \in DOMAIN AsciiLower : AsciiLower[i] = c
is_ascii_alphanumeric(c) ==
    \/ is_ascii_lowercase(c)
    \/ \E i \in DOMAIN AsciiUpper : AsciiUpper[i] = c
    \/ c \in AsciiDigit

\* The characters a resource name is made of
IsNameChar(c) == is_ascii_lowercase(c) \/ c \in AsciiDigit \/ c = "-"

\* to_lowercase, then ' ' and '_' become '-'
SanitizeChar(c) ==
    LET l == IF \E i \in DOMAIN AsciiUpper : AsciiUpper[i] = c
             THEN AsciiLower[CHOOSE i \in DOMAIN AsciiUpper : AsciiUpper[i] = c]
             ELSE c
    IN IF l = Space \/ l = "_" THEN "-" ELSE l

RECURSIVE TrimStartHyphens(_)
TrimStartHyphens(s) ==
    IF s # <<>> /\ Head(s) = "-" THEN TrimStartHyphens(Tail(s)) ELSE s

RECURSIVE TrimEndHyphens(_)
TrimEndHyphens(s) ==
    IF s # <<>> /\ s[Len(s)] = "-" THEN TrimEndHyphens(SubSeq(s, 1, Len(s) - 1)) ELSE s

\* A run of hyphens is collapsed into one
RECURSIVE CollapseHyphens(_)
CollapseHyphens(s) ==
    IF Len(s) < 2 THEN s
    ELSE IF s[1] = "-" /\ s[2] = "-" THEN CollapseHyphens(Tail(s))
         ELSE <<Head(s)>> \o CollapseHyphens(Tail(s))

sanitize_resource_name(raw) ==
    LET mapped == [i \in DOMAIN raw |-> SanitizeChar(raw[i])]
        kept == SelectSeq(mapped, IsNameChar)
        collapsed == CollapseHyphens(TrimEndHyphens(TrimStartHyphens(kept)))
    IN TrimEndHyphens(IF Len(collapsed) > 63 THEN SubSeq(collapsed, 1, 63) ELSE collapsed)

\* validate_resource_name: the reason the name is refused for, if any
validate_resource_name(name) ==
    IF name = <<>> THEN Err("name must not be empty")
    ELSE IF Len(name) > 63 THEN Err("name must be no more than 63 characters")
    ELSE IF \E i \in DOMAIN name : ~IsNameChar(name[i])
    THEN Err("name must contain only lowercase alphanumeric characters or '-'")
    ELSE IF ~is_ascii_alphanumeric(name[1])
    THEN Err("name must start with an alphanumeric character")
    ELSE IF ~is_ascii_alphanumeric(name[Len(name)])
    THEN Err("name must end with an alphanumeric character")
    ELSE Ok(<<>>)

InitError(kind, detail) == [kind |-> kind, detail |-> detail]

\* resolve_name: the name given, or the sanitized name of the directory
resolve_name(dir_name, name) ==
    IF name.some
    THEN IF validate_resource_name(name.val).ok THEN Ok(name.val)
         ELSE Err(InitError("InvalidResourceName", validate_resource_name(name.val).err))
    ELSE IF ~dir_name.some THEN Err(InitError("InvalidDirectoryName", ""))
    ELSE IF validate_resource_name(sanitize_resource_name(dir_name.val)).ok
    THEN Ok(sanitize_resource_name(dir_name.val))
    ELSE Err(InitError("InvalidResourceName",
                       validate_resource_name(sanitize_resource_name(dir_name.val)).err))

example_directories == <<"data", "scripts">>

\* example_data_files: the relative paths, in order
example_data_files ==
    <<"data/countries.csv", "data/cities.csv", "data/offices.csv",
      "scripts/generate-employees.sh", "scripts/generate-departments.sh">>

example_script_files == <<"scripts/generate-employees.sh", "scripts/generate-departments.sh">>

ExampleTable(name, has_header, source, ids) ==
    [name |-> name, has_header |-> has_header, source |-> source,
     columns |-> [j \in DOMAIN ids |-> [column_identifier |-> ids[j]]]]

\* example_project: the five tables with their sources and column identifiers
example_project(name) ==
    [name |-> name, api_version |-> "project.dbloada.io/v1",
     spec |-> [tables |->
        << ExampleTable("country", FALSE, FileSource("data/countries.csv", "utf-8"),
                        <<Index(0)>>),
           ExampleTable("city", TRUE, FileSource("data/cities.csv", "utf-8"),
                        <<Name("Name"), Name("Country")>>),
           ExampleTable("office", TRUE, FileSource("data/offices.csv", "utf-8"),
                        <<Name("Building Name"), Name("Location")>>),
           ExampleTable("employee", TRUE,
                        CmdSource("bash", <<"scripts/generate-employees.sh">>, TRUE, "utf-8"),
                        <<Name("Name"), Name("Office")>>),
           ExampleTable("department", TRUE,
                        CmdSource("bash", <<"scripts/generate-departments.sh", "$TEMP_CSV_PATH">>,
                                  FALSE, "utf-8"),
                        <<Name("Name"), Name("Head")>>) >>]]

\* is_directory_empty: read_dir yields no entry
is_directory_empty(entries) == entries = {}

\* Variant: the directory is never looked into
InitChecks_NoEmptinessCheck(t, r) ==
    IF t.kind # "dir" THEN Some(InitError("DirectoryNotFound", "")) ELSE None

\* init up to resolve_name: the error of the metadata check or of the
\* emptiness check, which is made only without force
InitChecks(t, r) ==
    IF t.kind # "dir" THEN Some(InitError("DirectoryNotFound", ""))
    ELSE IF ~r.force /\ ~is_directory_empty(t.entries)
    THEN Some(InitError("DirectoryNotEmpty", ""))
    ELSE None

\* A file system or Project Store call that succeeded
Effect(op, path) == [op |-> op, path |-> path]

\* Number of file system and Project Store calls init makes: target.fault
\* names the one that fails, 0 for none
InitCalls == Len(example_directories) + Len(example_data_files) + 1

\* What may be at the path: nothing, a file, or a directory with its entries
Targets ==
    {[kind |-> kd, entries |-> {}, dir_name |-> None, fault |-> 0] : kd \in {"missing", "file"}}
    \cup {[kind |-> "dir", entries |-> es, dir_name |-> dn, fault |-> f] :
            es \in {{}, {"existing.txt"}, {"data", "dbloada.yaml"}},
            dn \in {None, Some(<<"M", "y", "_", "p">>), Some(<<"_", "_">>)},
            f \in 0..InitCalls}

Requests ==
    {[name |-> n, force |-> f] :
        n \in {None, Some(<<"p", "-", "1">>), Some(<<"B", "a", "d">>)}, f \in BOOLEAN}

InitTarget ==
    /\ target \in Targets
    /\ request \in Requests
    /\ init_pc = "start"
    /\ init_i = 0
    /\ effects = <<>>
    /\ init_result = NotRun
    /\ StripIdle
    /\ ParseIdle
    /\ LoadIdle
    /\ StoreIdle

\* init: the metadata check, the emptiness check, resolve_name
InitBegin ==
    /\ init_pc = "start"
    /\ LET checked == InitChecks(target, request)
           named == resolve_name(target.dir_name, request.name)
       IN IF checked.some
          THEN init_result' = Err(checked.val) /\ init_pc' = "done" /\ UNCHANGED init_i
          ELSE IF ~named.ok
          THEN init_result' = named /\ init_pc' = "done" /\ UNCHANGED init_i
          ELSE init_pc' = "directories" /\ init_i' = 1 /\ UNCHANGED init_result
    /\ UNCHANGED <<target, request, effects>>
    /\ UNCHANGED <<stripVars, parseVars, loadVars, storeVars>>

\* The loop over example_directories: file_system.ensure_dir
InitEnsureDir ==
    /\ init_pc = "directories"
    /\ IF target.fault = init_i
       THEN /\ init_result' = Err(InitError("FileError", "DirCreateError"))
            /\ init_pc' = "done"
            /\ UNCHANGED <<init_i, effects>>
       ELSE /\ effects' = Append(effects, Effect("ensure_dir", example_directories[init_i]))
            /\ IF init_i < Len(example_directories)
               THEN init_i' = init_i + 1 /\ UNCHANGED init_pc
               ELSE init_i' = 1 /\ init_pc' = "files"
            /\ UNCHANGED init_result
    /\ UNCHANGED <<target, request>>
    /\ UNCHANGED <<stripVars, parseVars, loadVars, storeVars>>

\* The loop over example_data_files: file_system.save
InitSaveFile ==
    /\ init_pc = "files"
    /\ IF target.fault = Len(example_directories) + init_i
       THEN /\ init_result' = Err(InitError("FileError", "WriteError"))
            /\ init_pc' = "done"
            /\ UNCHANGED <<init_i, effects>>
       ELSE /\ effects' = Append(effects, Effect("save", example_data_files[init_i]))
            /\ IF init_i < Len(example_data_files)
               THEN init_i' = init_i + 1 /\ UNCHANGED init_pc
               ELSE init_i' = 0 /\ init_pc' = "project"
            /\ UNCHANGED init_result
    /\ UNCHANGED <<target, request>>
    /\ UNCHANGED <<stripVars, parseVars, loadVars, storeVars>>

\* The scripts are made executable, then project_io.save writes dbloada.yaml
InitSaveProject ==
    /\ init_pc = "project"
    /\ LET modes == [j \in DOMAIN example_script_files |->
                        Effect("set_permissions", example_script_files[j])]
           named == resolve_name(target.dir_name, request.name)
       IN IF target.fault = InitCalls
          THEN /\ init_result' = Err(InitError("IOError", "FileError"))
               /\ effects' = effects \o modes
          ELSE /\ init_result' = Ok(<<>>)
               /\ effects' = effects \o modes
                    \o << [op |-> "project_io.save", path |-> "dbloada.yaml",
                           project |-> example_project(named.val)] >>
    /\ init_pc' = "done"
    /\ UNCHANGED <<target, request, init_i>>
    /\ UNCHANGED <<stripVars, parseVars, loadVars, storeVars>>

NextInit == InitBegin \/ InitEnsureDir \/ InitSaveFile \/ InitSaveProject

SpecInit == InitTarget /\ [][NextInit]_vars

\* The path is a directory that holds at least one entry
NonEmptyDirectory == target.kind = "dir" /\ target.entries # {}

\* The calls of a completed scaffold, in order
Scaffold ==
    << Effect("ensure_dir", "data"), Effect("ensure_dir", "scripts"),
       Effect("save", "data/countries.csv"), Effect("save", "data/cities.csv"),
       Effect("save", "data/offices.csv"), Effect("save", "scripts/generate-employees.sh"),
       Effect("save", "scripts/generate-departments.sh"),
       Effect("set_permissions", "scripts/generate-employees.sh"),
       Effect("set_permissions", "scripts/generate-departments.sh") >>

====
